---- MODULE Spec2Model ----
(***************************************************************************)
(* Model of the octree spatial-division kernel (OctreeKernel.cpp) and of   *)
(* the draw override that shows its result.                                *)
(*                                                                         *)
(* Coordinates are exact integers: a real coordinate x is stored as        *)
(* x * Unit, Unit = 2^(MAX_DEPTH+2), so that every box centre the code can *)
(* compute (boxes down to tree level MAX_DEPTH+1, and the centres of their *)
(* octants) is an integer.  Heap nodes are numbered in allocation order    *)
(* and a number is never handed out twice; nullptr is 0.                   *)
(***************************************************************************)
EXTENDS Integers, Sequences, FiniteSets, TLC

(* int MAX_TRIANGLES_PER_NODE = 10; int MAX_DEPTH = 32; in the source.     *)
(* Both are tunable globals; the model runs them scaled down.              *)
MAX_TRIANGLES_PER_NODE == 2
MAX_DEPTH == 2

(* Longest mesh (in polygons) handed to one build.                         *)
MaxPolys == 3
(* Longest mesh of the polygons that make a deep tree.                     *)
MaxPolysDeep == 5
(* Longest second mesh of the driver.                                      *)
MaxPolysB == 2
(* Builds of one kernel in the kernel-lifecycle specification.             *)
MaxBuilds == 2

Unit == 2 ^ (MAX_DEPTH + 2)
nullptr == 0
Axes == 1 .. 3
Octants == 0 .. 7

VARIABLES
    nodes,      \* the heap: nodes[id] is the OctreeNode allocated id-th
    released,   \* ids in the order `delete node` ran on them
    root,       \* root[k]: OctreeKernel::root of kernel k
    status,     \* status[k]: what the last build of kernel k returned
    soup,       \* soup[k]: the TriangleData records the last build of k inserted
    kept,       \* kept[k][j]: the triangles in k's tree after the j-th of these inserts
    bboxOf,     \* bboxOf[k]: the bbox argument of the last build of k
    inMesh,     \* inMesh[k]: the mesh of the last build of k, with its offset matrix
    builds,     \* builds[k]: how many times build ran on kernel k
    calls,      \* the calls of the last insertTriangle(root, t, 0), in call order
    splits,     \* the splitNode calls of that insert
    k2k,        \* k2k[k]: what kernel k's intersectKernelKernel(other) returned
    faceIds,    \* the node's intersectedFaceIdsA / intersectedFaceIdsB
    data,       \* the IntersectionMarkerData handed back to the renderer
    computed,   \* the node has set faceIds from the kernels' answer
    prevChecksum, \* IntersectionMarkerDrawOverride::prevChecksum
    drawn       \* the last prepareForDraw: the return it took and the show flags

vars == <<nodes, released, root, status, soup, kept, bboxOf, inMesh, builds, calls,
          splits, k2k, faceIds, data, computed, prevChecksum, drawn>>

Kernels == {"A", "B"}

-----------------------------------------------------------------------------
(* Geometry primitives                                                     *)

P(x, y, z) == <<x * Unit, y * Unit, z * Unit>>

Sub(p, q) == [i \in Axes |-> p[i] - q[i]]
Add(p, q) == [i \in Axes |-> p[i] + q[i]]
Cross(u, v) ==
    <<u[2] * v[3] - u[3] * v[2], u[3] * v[1] - u[1] * v[3], u[1] * v[2] - u[2] * v[1]>>
Dot(u, v) == u[1] * v[1] + u[2] * v[2] + u[3] * v[3]
Sign(x) == IF x > 0 THEN 1 ELSE IF x < 0 THEN -1 ELSE 0

(* MBoundingBox(corner1, corner2) as the code calls it, min corner first.  *)
MBoundingBox(c1, c2) == [min |-> c1, max |-> c2]

(* MBoundingBox::center                                                    *)
center(box) == [i \in Axes |-> (box.min[i] + box.max[i]) \div 2]

(* MBoundingBox::intersects: the intervals overlap on every axis; touching *)
(* counts.                                                                 *)
intersects(a, b) ==
    \A i \in Axes : a.min[i] <= b.max[i] /\ b.min[i] <= a.max[i]

(* MBoundingBox::contains                                                  *)
contains(box, p) ==
    \A i \in Axes : box.min[i] <= p[i] /\ p[i] <= box.max[i]

boxContainsAnyVertices(box, triangle) ==
    \E v \in 1 .. 3 : contains(box, triangle.vertices[v])

boxContainsAllVertices(box, triangle) ==
    \A v \in 1 .. 3 : contains(box, triangle.vertices[v])

(* points[i] * offsetMatrix: the offset matrices of the model are          *)
(* translations, given by their translation row.                           *)
MulPointMatrix(p, offsetMatrix) == Add(p, offsetMatrix)

(* TriangleData(faceIndex, triangleIndex, p0, p1, p2, normal); the normal  *)
(* is read by no kernel operation and is left out.                         *)
TriangleData(faceIndex, triangleIndex, p0, p1, p2) ==
    [faceIndex |-> faceIndex, triangleIndex |-> triangleIndex,
     vertices |-> <<p0, p1, p2>>]

-----------------------------------------------------------------------------
(* Inputs                                                                  *)

World == MBoundingBox(P(0, 0, 0), P(4, 4, 4))
Corner == MBoundingBox(P(0, 0, 0), P(2, 2, 2))
Inverted == MBoundingBox(P(4, 4, 4), P(0, 0, 0))
WallBox == MBoundingBox(P(3, 0, 0), P(4, 1, 1))

Identity == P(0, 0, 0)
ShiftX == P(1, 0, 0)

(* Polygons, in object space.                                              *)
Small == << <<P(0, 0, 0), P(1, 0, 0), P(0, 1, 0)>> >>
Big == << <<P(0, 0, 0), P(4, 0, 1), P(0, 4, 0)>> >>
Quad == << <<P(3, 0, 0), P(4, 0, 0), P(4, 1, 0)>>,
           <<P(3, 0, 0), P(4, 1, 0), P(3, 1, 0)>> >>
Wall == << <<P(3, 0, 0), P(3, 1, 0), P(3, 0, 1)>>,
           <<P(3, 1, 0), P(3, 1, 1), P(3, 0, 1)>> >>
(* In the plane x = 2, which two octants of World share.                   *)
Slab == << <<P(2, 0, 0), P(2, 1, 0), P(2, 0, 1)>> >>
(* Barycentre (2, 1, 0): as far from octant 0 of World as from octant 1.   *)
Roof == << <<P(0, 0, 0), P(4, 0, 0), P(2, 3, 0)>> >>

MeshesOf(polygons, n) == UNION {[1 .. len -> polygons] : len \in 0 .. n}

PolygonsA == {Small, Big, Quad}
PolygonsK == {Small, Big, Quad, Slab, Roof}
PolygonsB == {Small, Wall}
(* Meshes with many triangles in one place, which make a deep tree.        *)
PolygonsDeep == {Small, Wall}

-----------------------------------------------------------------------------
(* Triangle-triangle predicate: the two closed triangles share a point.    *)
(* Exact on integer coordinates; a zero-area triangle intersects nothing.  *)

Normal(t) ==
    Cross(Sub(t.vertices[2], t.vertices[1]), Sub(t.vertices[3], t.vertices[1]))

Degenerate(t) == Normal(t) = <<0, 0, 0>>

(* Signed volume of the tetrahedron (a, b, c, d).                          *)
Orient(a, b, c, d) == Dot(Cross(Sub(b, a), Sub(c, a)), Sub(d, a))

(* An axis on which the plane normal n does not vanish.                    *)
DominantAxis(n) == CHOOSE i \in Axes : n[i] # 0 /\ \A j \in 1 .. (i - 1) : n[j] = 0

(* For x in the plane with normal n: the side of the directed line p->q x  *)
(* lies on, +1 to the left seen from the tip of n.                         *)
Side(n, p, q, x) ==
    LET k == DominantAxis(n)
    IN  Sign(Cross(Sub(q, p), Sub(x, p))[k]) * Sign(n[k])

Between(p, q, x) ==
    \A i \in Axes :
        (p[i] <= x[i] /\ x[i] <= q[i]) \/ (q[i] <= x[i] /\ x[i] <= p[i])

(* Coplanar closed segments pq and rs meet.                                *)
SegSeg(n, p, q, r, s) ==
    LET o1 == Side(n, p, q, r)
        o2 == Side(n, p, q, s)
        o3 == Side(n, r, s, p)
        o4 == Side(n, r, s, q)
    IN  \/ o1 # o2 /\ o3 # o4
        \/ o1 = 0 /\ Between(p, q, r)
        \/ o2 = 0 /\ Between(p, q, s)
        \/ o3 = 0 /\ Between(r, s, p)
        \/ o4 = 0 /\ Between(r, s, q)

(* x, in the plane of t, lies in the closed triangle t.                    *)
PointInTri(t, x) ==
    LET n == Normal(t)
        a == t.vertices[1]
        b == t.vertices[2]
        c == t.vertices[3]
    IN  Side(n, a, b, x) >= 0 /\ Side(n, b, c, x) >= 0 /\ Side(n, c, a, x) >= 0

Edges == {<<1, 2>>, <<2, 3>>, <<3, 1>>}

(* The closed segment pq meets the closed triangle t.                      *)
SegTri(p, q, t) ==
    LET a == t.vertices[1]
        b == t.vertices[2]
        c == t.vertices[3]
        dp == Sign(Orient(a, b, c, p))
        dq == Sign(Orient(a, b, c, q))
    IN  IF dp = 0 /\ dq = 0
        THEN \/ PointInTri(t, p)
             \/ PointInTri(t, q)
             \/ \E e \in Edges :
                    SegSeg(Normal(t), p, q, t.vertices[e[1]], t.vertices[e[2]])
        ELSE IF dp * dq > 0
        THEN FALSE
        ELSE LET s1 == Sign(Orient(p, q, a, b))
                 s2 == Sign(Orient(p, q, b, c))
                 s3 == Sign(Orient(p, q, c, a))
             IN  \/ s1 >= 0 /\ s2 >= 0 /\ s3 >= 0
                 \/ s1 <= 0 /\ s2 <= 0 /\ s3 <= 0

Overlap(t1, t2) ==
    /\ ~Degenerate(t1)
    /\ ~Degenerate(t2)
    /\ \/ \E e \in Edges : SegTri(t1.vertices[e[1]], t1.vertices[e[2]], t2)
       \/ \E e \in Edges : SegTri(t2.vertices[e[1]], t2.vertices[e[2]], t1)

(* The triangles of the polygons above as they stand in object space, and  *)
(* the pairs of them that overlap, worked out once.                        *)
Corners ==
    UNION {{polygon[n] : n \in DOMAIN polygon} :
              polygon \in PolygonsA \cup PolygonsB \cup PolygonsK}

Overlapping ==
    {p : p \in {q \in Corners \X Corners :
                   Overlap([vertices |-> q[1]], [vertices |-> q[2]])}}

intersectTriangleTriangle(t1, t2) ==
    IF t1.vertices \in Corners /\ t2.vertices \in Corners
    THEN <<t1.vertices, t2.vertices>> \in Overlapping
    ELSE Overlap(t1, t2)

-----------------------------------------------------------------------------
(* OctreeNode                                                              *)

NoChildren == [i \in Octants |-> nullptr]

(* new OctreeNode: no children, no triangles.  overflowed is not a field   *)
(* of the struct: it records that the depth > MAX_DEPTH branch of          *)
(* insertTriangle appended a triangle to the node while it was a leaf.     *)
OctreeNode(box) ==
    [boundingBox |-> box, children |-> NoChildren, triangles |-> <<>>,
     overflowed |-> FALSE]

isLeaf(n) == \A i \in Octants : n.children[i] = nullptr

(* The running state of one insertTriangle(root, t, 0): the heap, and the  *)
(* record of the calls made so far.                                        *)
Machine(h, c, s) == [nodes |-> h, calls |-> c, splits |-> s]

(* TLC evaluates an operator's argument where the operator first uses it;  *)
(* Now(x) uses x at once, which keeps the evaluation of nested calls from  *)
(* piling up.  It is TRUE.                                                 *)
Now(x) == x = x

push_back(m, node, triangle) ==
    [m EXCEPT !.nodes[node].triangles = Append(@, triangle)]

(* The push_back of the depth > MAX_DEPTH branch.                          *)
push_back_overflow(m, node, triangle) ==
    [m EXCEPT !.nodes[node].triangles = Append(@, triangle),
              !.nodes[node].overflowed = @ \/ isLeaf(m.nodes[node])]

-----------------------------------------------------------------------------
(* OctreeKernel::splitNode                                                 *)

(* boxes[0..7] of splitNode, in the source's order.                        *)
OctantBoxes(box) ==
    LET c == center(box)
        min == box.min
        max == box.max
        boxes == <<
            MBoundingBox(min, c),
            MBoundingBox(<<c[1], min[2], min[3]>>, <<max[1], c[2], c[3]>>),
            MBoundingBox(<<c[1], min[2], c[3]>>, <<max[1], c[2], max[3]>>),
            MBoundingBox(<<min[1], min[2], c[3]>>, <<c[1], c[2], max[3]>>),
            MBoundingBox(<<min[1], c[2], min[3]>>, <<c[1], max[2], c[3]>>),
            MBoundingBox(<<c[1], c[2], min[3]>>, <<max[1], max[2], c[3]>>),
            MBoundingBox(c, max),
            MBoundingBox(<<min[1], c[2], c[3]>>, <<c[1], max[2], max[3]>>) >>
    IN  [i \in Octants |-> boxes[i + 1]]

(* (boxes[i].center() - baryCenter).length(), kept exact: the value is     *)
(* 9 * length^2, which orders the candidates as the length does.           *)
distance(box, triangle) ==
    LET sum == Add(Add(triangle.vertices[1], triangle.vertices[2]), triangle.vertices[3])
        c == center(box)
        d == [i \in Axes |-> 3 * c[i] - sum[i]]
    IN  Dot(d, d)

(* The inner loop `for i < 8: if boxContainsAllVertices(boxes[i]) ... break`: *)
(* the index it stops at, 8 when it runs to the end.                       *)
RECURSIVE firstContaining(_, _, _)
firstContaining(boxes, triangle, i) ==
    IF i > 7 THEN 8
    ELSE IF boxContainsAllVertices(boxes[i], triangle) THEN i
    ELSE firstContaining(boxes, triangle, i + 1)

RECURSIVE nearestChildFrom(_, _, _, _, _)

(* nearestChildFrom with `distance <= minDistance`.                        *)
nearestChildLast(boxes, triangle, i, nearestChild, minDistance) ==
    IF i > 7 THEN nearestChild
    ELSE LET d == distance(boxes[i], triangle)
         IN  IF d <= minDistance
             THEN nearestChildFrom(boxes, triangle, i + 1, i, d)
             ELSE nearestChildFrom(boxes, triangle, i + 1, nearestChild, minDistance)

(* The loop `for i = 1 .. 7: if distance < minDistance`.                   *)
nearestChildFrom(boxes, triangle, i, nearestChild, minDistance) ==
    IF i > 7 THEN nearestChild
    ELSE LET d == distance(boxes[i], triangle)
         IN  IF d < minDistance
             THEN nearestChildFrom(boxes, triangle, i + 1, i, d)
             ELSE nearestChildFrom(boxes, triangle, i + 1, nearestChild, minDistance)

(* The child a triangle of the split node is moved to.                     *)
targetChild(boxes, triangle) ==
    LET i == firstContaining(boxes, triangle, 0)
    IN  IF i <= 7 THEN i
        ELSE nearestChildFrom(boxes, triangle, 1, 0, distance(boxes[0], triangle))

RECURSIVE moveTriangles(_, _, _, _, _)

(* moveTriangles without the nearest-child fallback: a triangle that no    *)
(* child box contains whole is moved nowhere.                              *)
moveTrianglesContained(h, kids, boxes, triangles, j) ==
    IF Now(h) /\ j > Len(triangles) THEN h
    ELSE LET i == firstContaining(boxes, triangles[j], 0)
         IN  moveTriangles(IF i <= 7
                           THEN [h EXCEPT ![kids[i]].triangles = Append(@, triangles[j])]
                           ELSE h,
                           kids, boxes, triangles, j + 1)

(* `for triangle : node->triangles`, from the j-th on.                     *)
moveTriangles(h, kids, boxes, triangles, j) ==
    IF Now(h) /\ j > Len(triangles) THEN h
    ELSE LET child == kids[targetChild(boxes, triangles[j])]
         IN  moveTriangles([h EXCEPT ![child].triangles = Append(@, triangles[j])],
                           kids, boxes, triangles, j + 1)

(* The split is recorded with the heap before and after it.                *)
Split(m, node, after) ==
    [m EXCEPT !.nodes = after,
              !.splits = Append(@, [node |-> node, call |-> Len(m.calls),
                                    before |-> m.nodes, after |-> after])]

splitNode(m, node) ==
    LET h == m.nodes
        boxes == OctantBoxes(h[node].boundingBox)
        base == Len(h)
        kids == [i \in Octants |-> base + i + 1]
        created == h \o [i \in 1 .. 8 |-> OctreeNode(boxes[i - 1])]
        linked == [created EXCEPT ![node].children = kids]
        moved == moveTriangles(linked, kids, boxes, h[node].triangles, 1)
    IN  Split(m, node, [moved EXCEPT ![node].triangles = <<>>])

-----------------------------------------------------------------------------
(* OctreeKernel::insertTriangle                                            *)

(* The branch a call takes, decided on entry.                              *)
Branch(h, node, depth) ==
    IF depth > MAX_DEPTH THEN "overflow"
    ELSE IF isLeaf(h[node])
    THEN IF Len(h[node].triangles) < MAX_TRIANGLES_PER_NODE THEN "leaf" ELSE "split"
    ELSE "interior"

RECURSIVE insertTriangleFrom(_, _, _, _, _)
RECURSIVE insertIntoChildren(_, _, _, _, _, _, _)

(* Call number self returns, leaving m.                                    *)
Returned(m, self) == [m EXCEPT !.calls[self].after = m.nodes]

(* The children the loop `for i < 8: if children[i] != nullptr &&          *)
(* boxContainsAnyVertices(children[i]->boundingBox, triangle)` recurses    *)
(* into, in loop order.  (No pass of the loop changes a child pointer or a *)
(* child's box, so the test of pass i does not depend on the passes before *)
(* it.)                                                                    *)
Accepting(h, node, triangle) ==
    SelectSeq([n \in 1 .. 8 |-> n - 1],
              LAMBDA i : /\ h[node].children[i] # nullptr
                         /\ boxContainsAnyVertices(
                                h[h[node].children[i]].boundingBox, triangle))

(* insertIntoChildren with a `break` after the first recursive call.       *)
insertIntoFirstChild(m, node, triangle, depth, self, accepting, n) ==
    IF Now(m) /\ (n > Len(accepting) \/ n > 1)
    THEN IF accepting = <<>> THEN push_back(m, node, triangle) ELSE m
    ELSE insertIntoChildren(
             insertTriangleFrom(m, m.nodes[node].children[accepting[n]], triangle,
                                depth + 1, self),
             node, triangle, depth, self, accepting, n + 1)

(* The recursive calls of that loop, from the n-th accepting child on,     *)
(* then `if (!inserted) push_back`.  self is the number of the running     *)
(* call in the call record.                                                *)
insertIntoChildren(m, node, triangle, depth, self, accepting, n) ==
    IF Now(m) /\ n > Len(accepting)
    THEN IF accepting = <<>> THEN push_back(m, node, triangle) ELSE m
    ELSE insertIntoChildren(
             insertTriangleFrom(m, m.nodes[node].children[accepting[n]], triangle,
                                depth + 1, self),
             node, triangle, depth, self, accepting, n + 1)

(* insertTriangleFrom with `size() <= MAX_TRIANGLES_PER_NODE` for the leaf *)
(* that can still hold more.                                               *)
insertTriangleOverfull(m, node, triangle, depth, caller) ==
    LET branch == Branch(m.nodes, node, depth)
        self == Len(m.calls) + 1
        entered == [m EXCEPT !.calls = Append(@,
                        [node |-> node, depth |-> depth, caller |-> caller,
                         branch |-> branch, triangle |-> triangle,
                         before |-> m.nodes, after |-> m.nodes])]
        returned ==
            IF depth > MAX_DEPTH
            THEN push_back_overflow(entered, node, triangle)
            ELSE IF isLeaf(m.nodes[node])
            THEN IF Len(m.nodes[node].triangles) <= MAX_TRIANGLES_PER_NODE
                 THEN push_back(entered, node, triangle)
                 ELSE insertTriangleFrom(splitNode(entered, node), node, triangle,
                                         depth + 1, self)
            ELSE insertIntoChildren(entered, node, triangle, depth, self,
                                    Accepting(m.nodes, node, triangle), 1)
    IN  Returned(returned, self)

(* insertTriangleFrom with the retry after splitNode at the same depth.    *)
insertTriangleSameDepth(m, node, triangle, depth, caller) ==
    LET branch == Branch(m.nodes, node, depth)
        self == Len(m.calls) + 1
        entered == [m EXCEPT !.calls = Append(@,
                        [node |-> node, depth |-> depth, caller |-> caller,
                         branch |-> branch, triangle |-> triangle,
                         before |-> m.nodes, after |-> m.nodes])]
        returned ==
            IF depth > MAX_DEPTH
            THEN push_back_overflow(entered, node, triangle)
            ELSE IF isLeaf(m.nodes[node])
            THEN IF Len(m.nodes[node].triangles) < MAX_TRIANGLES_PER_NODE
                 THEN push_back(entered, node, triangle)
                 ELSE insertTriangleFrom(splitNode(entered, node), node, triangle,
                                         depth, self)
            ELSE insertIntoChildren(entered, node, triangle, depth, self,
                                    Accepting(m.nodes, node, triangle), 1)
    IN  Returned(returned, self)

(* insertTriangle(node, triangle, depth), called by call number `caller`   *)
(* (0: called by build).  The call is recorded on entry, with the heap it  *)
(* found; the heap it left is added when it returns.                       *)
insertTriangleFrom(m, node, triangle, depth, caller) ==
    LET branch == Branch(m.nodes, node, depth)
        self == Len(m.calls) + 1
        entered == [m EXCEPT !.calls = Append(@,
                        [node |-> node, depth |-> depth, caller |-> caller,
                         branch |-> branch, triangle |-> triangle,
                         before |-> m.nodes, after |-> m.nodes])]
        returned ==
            IF depth > MAX_DEPTH
            THEN push_back_overflow(entered, node, triangle)
            ELSE IF isLeaf(m.nodes[node])
            THEN IF Len(m.nodes[node].triangles) < MAX_TRIANGLES_PER_NODE
                 THEN push_back(entered, node, triangle)
                 ELSE insertTriangleFrom(splitNode(entered, node), node, triangle,
                                         depth + 1, self)
            ELSE insertIntoChildren(entered, node, triangle, depth, self,
                                    Accepting(m.nodes, node, triangle), 1)
    IN  Returned(returned, self)

insertTriangle(h, node, triangle, depth) ==
    insertTriangleFrom(Machine(h, <<>>, <<>>), node, triangle, depth, 0)

-----------------------------------------------------------------------------
(* OctreeKernel::clear                                                     *)

RECURSIVE clear(_, _, _)

(* clearChild with the loop stopping one child short.                      *)
clearChildButLast(h, node, i) ==
    IF i < 7 /\ h[node].children[i] # nullptr
    THEN clear(<<>>, h, h[node].children[i]) ELSE <<>>

(* `if children[i] != nullptr: clear(children[i])` for child i: the        *)
(* deletes it does.                                                        *)
clearChild(h, node, i) ==
    IF h[node].children[i] # nullptr THEN clear(<<>>, h, h[node].children[i]) ELSE <<>>

(* clear(node): log is the record of the deletes done before the call; the *)
(* children are cleared in index order, then `delete node`.                *)
clear(log, h, node) ==
    IF node # nullptr
    THEN log \o clearChild(h, node, 0) \o clearChild(h, node, 1)
             \o clearChild(h, node, 2) \o clearChild(h, node, 3)
             \o clearChild(h, node, 4) \o clearChild(h, node, 5)
             \o clearChild(h, node, 6) \o clearChild(h, node, 7)
             \o <<node>>
    ELSE log

-----------------------------------------------------------------------------
(* OctreeKernel::build                                                     *)

(* The TriangleData records build makes of a mesh: a mesh is a sequence of *)
(* polygons (itPoly.index() = position - 1), a polygon the sequence of its *)
(* triangles, a triangle three object-space points.                        *)
RECURSIVE PolygonTriangles(_, _, _, _)
PolygonTriangles(polygon, index, offsetMatrix, i) ==
    IF i >= Len(polygon) THEN <<>>
    ELSE <<TriangleData(index, i,
                        MulPointMatrix(polygon[i + 1][1], offsetMatrix),
                        MulPointMatrix(polygon[i + 1][2], offsetMatrix),
                        MulPointMatrix(polygon[i + 1][3], offsetMatrix))>>
         \o PolygonTriangles(polygon, index, offsetMatrix, i + 1)

RECURSIVE MeshTriangles(_, _, _)
MeshTriangles(meshObject, offsetMatrix, index) ==
    IF index >= Len(meshObject) THEN <<>>
    ELSE PolygonTriangles(meshObject[index + 1], index, offsetMatrix, 0)
         \o MeshTriangles(meshObject, offsetMatrix, index + 1)

RECURSIVE Subtree(_, _)
(* The nodes reachable from node in heap h.                                *)
Subtree(h, node) ==
    IF node = nullptr THEN {}
    ELSE {node} \cup UNION {Subtree(h, h[node].children[i]) : i \in Octants}

Elements(seq) == {seq[n] : n \in 1 .. Len(seq)}

(* The triangles stored in the tree under node.                            *)
Stored(h, node) == UNION {Elements(h[id].triangles) : id \in Subtree(h, node)}

(* One insertTriangle(root, triangle, 0) of build has returned m: the      *)
(* record of the insert replaces that of the one before, and what the tree *)
(* now holds is noted.                                                     *)
Inserted(st, m, rootNode) ==
    [nodes |-> m.nodes, calls |-> m.calls, splits |-> m.splits,
     kept |-> Append(st.kept, Stored(m.nodes, rootNode))]

(* The two nested loops of build: insertTriangle(root, triangle, 0) for    *)
(* every triangle, from the j-th on.                                       *)
RECURSIVE insertAll(_, _, _, _)
insertAll(st, rootNode, triangles, j) ==
    IF Now(st) /\ j > Len(triangles) THEN st
    ELSE insertAll(Inserted(st, insertTriangle(st.nodes, rootNode, triangles[j], 0),
                            rootNode),
                   rootNode, triangles, j + 1)

BuildResult(k, meshObject, bbox, offsetMatrix) ==
    LET newRoot == Len(nodes) + 1
        triangles == MeshTriangles(meshObject, offsetMatrix, 0)
    IN  [released |-> IF root[k] # nullptr
                      THEN clear(released, nodes, root[k]) ELSE released,
         root |-> newRoot,
         st |-> insertAll([nodes |-> Append(nodes, OctreeNode(bbox)),
                           calls |-> <<>>, splits |-> <<>>, kept |-> <<>>],
                          newRoot, triangles, 1),
         triangles |-> triangles,
         status |-> "kSuccess"]

(* build returns: r is what it computed.                                   *)
Built(k, meshObject, bbox, offsetMatrix, r) ==
    /\ released' = r.released
    /\ root' = [root EXCEPT ![k] = r.root]
    /\ nodes' = r.st.nodes
    /\ calls' = r.st.calls
    /\ splits' = r.st.splits
    /\ status' = [status EXCEPT ![k] = r.status]
    /\ soup' = [soup EXCEPT ![k] = r.triangles]
    /\ kept' = [kept EXCEPT ![k] = r.st.kept]
    /\ bboxOf' = [bboxOf EXCEPT ![k] = bbox]
    /\ inMesh' = [inMesh EXCEPT ![k] =
                      [polygons |-> meshObject, offsetMatrix |-> offsetMatrix]]
    /\ builds' = [builds EXCEPT ![k] = @ + 1]
    /\ UNCHANGED <<k2k, faceIds, data, computed, prevChecksum, drawn>>

build(k, meshObject, bbox, offsetMatrix) ==
    Built(k, meshObject, bbox, offsetMatrix,
          BuildResult(k, meshObject, bbox, offsetMatrix))

(* ~OctreeKernel: the kernel's tree is destroyed with clear(root).         *)
destroy(k) ==
    /\ root[k] # nullptr
    /\ released' = clear(released, nodes, root[k])
    /\ root' = [root EXCEPT ![k] = nullptr]
    /\ UNCHANGED <<nodes, status, soup, kept, bboxOf, inMesh, builds, calls, splits,
                   k2k, faceIds, data, computed, prevChecksum, drawn>>

-----------------------------------------------------------------------------
(* intersectOctreeNodesRecursive                                           *)

RECURSIVE intersectOctreeNodesRecursive(_, _, _)
RECURSIVE descend(_, _, _, _, _, _)

(* LoopPair with the loop over nodeA's children stuck at child 0.          *)
LoopPairFirst(h, nodeA, nodeB, loop, n) ==
    IF loop = "B" THEN <<nodeA, h[nodeB].children[n]>>
    ELSE IF loop = "A" THEN <<h[nodeA].children[0], nodeB>>
    ELSE <<h[nodeA].children[n \div 8], h[nodeB].children[n % 8]>>

(* The pair of nodes the n-th pass of a loop of the descent recurses on:   *)
(* loop "B" is `for i < 8` over nodeB's children, loop "A" the one over    *)
(* nodeA's, loop "AB" the double loop, n = 8 * i + j.                      *)
LoopPair(h, nodeA, nodeB, loop, n) ==
    IF loop = "B" THEN <<nodeA, h[nodeB].children[n]>>
    ELSE IF loop = "A" THEN <<h[nodeA].children[n], nodeB>>
    ELSE <<h[nodeA].children[n \div 8], h[nodeB].children[n % 8]>>

(* The pairs passes lo .. hi of a loop append, in order (the range is      *)
(* halved rather than walked, which keeps the evaluation shallow).         *)
descend(h, nodeA, nodeB, loop, lo, hi) ==
    IF lo = hi
    THEN LET pair == LoopPair(h, nodeA, nodeB, loop, lo)
         IN  IF pair[1] # nullptr /\ pair[2] # nullptr
             THEN intersectOctreeNodesRecursive(h, pair[1], pair[2])
             ELSE <<>>
    ELSE descend(h, nodeA, nodeB, loop, lo, (lo + hi) \div 2)
         \o descend(h, nodeA, nodeB, loop, ((lo + hi) \div 2) + 1, hi)

(* intersectOctreeNodesRecursive without the branch for a leaf nodeA.      *)
intersectLeafAIgnored(h, nodeA, nodeB) ==
    IF ~intersects(h[nodeA].boundingBox, h[nodeB].boundingBox)
    THEN <<>>
    ELSE IF isLeaf(h[nodeA]) /\ isLeaf(h[nodeB])
    THEN << <<nodeA, nodeB>> >>
    ELSE IF isLeaf(h[nodeA])
    THEN <<>>
    ELSE IF isLeaf(h[nodeB])
    THEN descend(h, nodeA, nodeB, "A", 0, 7)
    ELSE descend(h, nodeA, nodeB, "AB", 0, 63)

(* intersectOctreeNodesRecursive without the early return on boxes that do *)
(* not intersect.                                                          *)
intersectNoEarlyReturn(h, nodeA, nodeB) ==
    IF isLeaf(h[nodeA]) /\ isLeaf(h[nodeB])
    THEN << <<nodeA, nodeB>> >>
    ELSE IF isLeaf(h[nodeA])
    THEN descend(h, nodeA, nodeB, "B", 0, 7)
    ELSE IF isLeaf(h[nodeB])
    THEN descend(h, nodeA, nodeB, "A", 0, 7)
    ELSE descend(h, nodeA, nodeB, "AB", 0, 63)

(* The pairs one call appends to intersectedNodes, in order.               *)
intersectOctreeNodesRecursive(h, nodeA, nodeB) ==
    IF ~intersects(h[nodeA].boundingBox, h[nodeB].boundingBox)
    THEN <<>>
    ELSE IF isLeaf(h[nodeA]) /\ isLeaf(h[nodeB])
    THEN << <<nodeA, nodeB>> >>
    ELSE IF isLeaf(h[nodeA])
    THEN descend(h, nodeA, nodeB, "B", 0, 7)
    ELSE IF isLeaf(h[nodeB])
    THEN descend(h, nodeA, nodeB, "A", 0, 7)
    ELSE descend(h, nodeA, nodeB, "AB", 0, 63)

-----------------------------------------------------------------------------
(* OctreeKernel::intersectKernelKernel                                     *)

(* The tests of one candidate pair: every (triA, triB), triA outermost.    *)
(* Each test is recorded with the nodes and positions of its triangles.    *)
PairTests(h, pair) ==
    LET nodeA == pair[1]
        nodeB == pair[2]
        nA == Len(h[nodeA].triangles)
        nB == Len(h[nodeB].triangles)
    IN  IF isLeaf(h[nodeA]) /\ isLeaf(h[nodeB])
        THEN [n \in 1 .. (nA * nB) |->
                 LET a == ((n - 1) \div nB) + 1
                     b == ((n - 1) % nB) + 1
                 IN  [nodeA |-> nodeA, nodeB |-> nodeB, a |-> a, b |-> b,
                      triA |-> h[nodeA].triangles[a],
                      triB |-> h[nodeB].triangles[b]]]
        ELSE <<>>

(* The tests of candidates lo .. hi, in order.                             *)
RECURSIVE AllTests(_, _, _, _)
AllTests(h, intersectedNodes, lo, hi) ==
    IF lo > hi THEN <<>>
    ELSE IF lo = hi THEN PairTests(h, intersectedNodes[lo])
    ELSE AllTests(h, intersectedNodes, lo, (lo + hi) \div 2)
         \o AllTests(h, intersectedNodes, ((lo + hi) \div 2) + 1, hi)

Hit(test) == intersectTriangleTriangle(test.triA, test.triB)

(* The tests that hit, in order.                                           *)
Hits(tests) == SelectSeq(tests, Hit)

NoResult ==
    [done |-> FALSE, first |-> <<>>, second |-> <<>>, intersectedNodes |-> <<>>,
     tested |-> <<>>]

K2KIntersection(intersectedNodes, tests, hits) ==
    [done |-> TRUE,
     first |-> [n \in 1 .. Len(hits) |-> hits[n].triA],
     second |-> [n \in 1 .. Len(hits) |-> hits[n].triB],
     intersectedNodes |-> intersectedNodes,
     tested |-> tests]

TestsOf(h, intersectedNodes) == AllTests(h, intersectedNodes, 1, Len(intersectedNodes))

HitsOf(intersectedNodes, tests) ==
    K2KIntersection(intersectedNodes, tests, Hits(tests))

(* this->intersectKernelKernel(other), both OctreeKernels: the returned    *)
(* pair of vectors, with the candidate list and the tests made.            *)
CandidateTests(h, intersectedNodes) ==
    HitsOf(intersectedNodes, TestsOf(h, intersectedNodes))

intersectKernelKernel(h, thisRoot, otherRoot) ==
    CandidateTests(h, intersectOctreeNodesRecursive(h, thisRoot, otherRoot))

Other(k) == IF k = "A" THEN "B" ELSE "A"

intersect(k) ==
    /\ root[k] # nullptr
    /\ root[Other(k)] # nullptr
    /\ k2k' = [k2k EXCEPT ![k] = intersectKernelKernel(nodes, root[k], root[Other(k)])]
    /\ UNCHANGED <<nodes, released, root, status, soup, kept, bboxOf, inMesh, builds, calls,
                   splits, faceIds, data, computed, prevChecksum, drawn>>

(* The driver collapses the triangles kernel A returned to the two face-id *)
(* sets of the node.                                                       *)
FaceIdSet(triangles) == {triangles[n].faceIndex : n \in 1 .. Len(triangles)}

collapse ==
    /\ k2k["A"].done
    /\ faceIds' = [A |-> FaceIdSet(k2k["A"].first), B |-> FaceIdSet(k2k["A"].second)]
    /\ computed' = TRUE
    /\ UNCHANGED <<nodes, released, root, status, soup, kept, bboxOf, inMesh, builds, calls,
                   splits, k2k, data, prevChecksum, drawn>>

-----------------------------------------------------------------------------
(* IntersectionMarkerDrawOverride                                          *)

(* int ^ int on two's-complement integers of any width.                    *)
RECURSIVE XorNat(_, _)
XorNat(a, b) ==
    IF a = 0 THEN b
    ELSE IF b = 0 THEN a
    ELSE (((a % 2) + (b % 2)) % 2) + 2 * XorNat(a \div 2, b \div 2)

Xor(a, b) ==
    IF a >= 0 /\ b >= 0 THEN XorNat(a, b)
    ELSE IF a < 0 /\ b < 0 THEN XorNat(-a - 1, -b - 1)
    ELSE IF a < 0 THEN -XorNat(-a - 1, b) - 1
    ELSE -XorNat(a, -b - 1) - 1

(* The FaceData of polygon faceId: the three points of each of its         *)
(* triangles times the offset matrix.  (The source also lifts each point   *)
(* by normal * 0.001; the lift is left out.)  mesh and faceId record which *)
(* polygon the entry was made for.                                         *)
FaceData(k, mesh, faceId) ==
    LET polygon == mesh.polygons[faceId + 1]
    IN  [mesh |-> k, faceId |-> faceId,
         vertices |-> [n \in 1 .. (3 * Len(polygon)) |->
                          MulPointMatrix(polygon[((n - 1) \div 3) + 1][((n - 1) % 3) + 1],
                                         mesh.offsetMatrix)]]

(* std::unordered_set iterates in an order of its own; the model takes the *)
(* ascending one.                                                          *)
RECURSIVE Ascending(_)
Ascending(set) ==
    IF set = {} THEN <<>>
    ELSE LET least == CHOOSE x \in set : \A y \in set : x <= y
         IN  <<least>> \o Ascending(set \ {least})

(* `for faceId : intersectedFaceIds`, over the ids still to visit.         *)
RECURSIVE addFaces(_, _, _, _)
addFaces(faces, k, mesh, ids) ==
    IF ids = <<>> THEN faces
    ELSE LET faceId == Head(ids)
             numPolygons == Len(mesh.polygons)
         IN  IF faceId < 0 \/ faceId >= numPolygons
             THEN addFaces(faces, k, mesh, Tail(ids))
             ELSE addFaces(Append(faces, FaceData(k, mesh, faceId)), k, mesh, Tail(ids))

(* addIntersectedVertices(meshFn, data, intersectedFaceIds, offsetMatrix): *)
(* the faces of data afterwards.                                           *)
addIntersectedVertices(faces, k, mesh, intersectedFaceIds) ==
    addFaces(faces, k, mesh, Ascending(intersectedFaceIds))

EarlyFailures == {"objPath", "depNodeFn", "userNode", "getChecksumA", "getChecksumB"}
MeshFailures == {"meshAFn", "meshBFn"}

(* The return statement a call leaves by: "failed" for a                   *)
(* CHECK_MSTATUS_AND_RETURN_DATA or `if (!node)` before the checksum test, *)
(* "unchanged" for the return of the checksum test, "meshFailed" for a     *)
(* CHECK_MSTATUS_AND_RETURN_DATA after the faces were cleared,             *)
(* "recomputed" for the last line.                                         *)
Return(failAt, newChecksum) ==
    IF failAt \in EarlyFailures THEN "failed"
    ELSE IF newChecksum > 0 /\ newChecksum = prevChecksum THEN "unchanged"
    ELSE IF failAt \in MeshFailures THEN "meshFailed"
    ELSE "recomputed"

(* prepareForDraw without `data->faces.clear()`.                           *)
prepareForDrawNoClear(fresh, failAt, checkSumA, checkSumB, showMeshA, showMeshB) ==
    LET old == IF fresh THEN [faces |-> <<>>] ELSE data
        newChecksum == Xor(checkSumA, checkSumB)
        facesA == IF showMeshA
                  THEN addIntersectedVertices(old.faces, "A", inMesh["A"], faceIds["A"])
                  ELSE old.faces
        facesAB == IF showMeshB
                   THEN addIntersectedVertices(facesA, "B", inMesh["B"], faceIds["B"])
                   ELSE facesA
    IN  /\ IF failAt \in EarlyFailures
           THEN data' = old /\ UNCHANGED prevChecksum
           ELSE IF newChecksum > 0 /\ newChecksum = prevChecksum
           THEN data' = old /\ UNCHANGED prevChecksum
           ELSE /\ prevChecksum' = newChecksum
                /\ data' = [faces |-> IF failAt \in MeshFailures THEN old.faces
                                                                ELSE facesAB]
        /\ drawn' = [return |-> Return(failAt, newChecksum),
                     showMeshA |-> showMeshA, showMeshB |-> showMeshB]
        /\ UNCHANGED <<nodes, released, root, status, soup, kept, bboxOf, inMesh, builds, calls,
                       splits, k2k, faceIds, computed>>

(* prepareForDraw(objPath, cameraPath, frameContext, oldData).  fresh: the *)
(* renderer passed no IntersectionMarkerData; failAt: the first call that  *)
(* fails, "none" when none does.                                           *)
prepareForDraw(fresh, failAt, checkSumA, checkSumB, showMeshA, showMeshB) ==
    LET old == IF fresh THEN [faces |-> <<>>] ELSE data
        newChecksum == Xor(checkSumA, checkSumB)
        facesA == IF showMeshA
                  THEN addIntersectedVertices(<<>>, "A", inMesh["A"], faceIds["A"])
                  ELSE <<>>
        facesAB == IF showMeshB
                   THEN addIntersectedVertices(facesA, "B", inMesh["B"], faceIds["B"])
                   ELSE facesA
    IN  /\ IF failAt \in EarlyFailures
           THEN data' = old /\ UNCHANGED prevChecksum
           ELSE IF newChecksum > 0 /\ newChecksum = prevChecksum
           THEN data' = old /\ UNCHANGED prevChecksum
           ELSE /\ prevChecksum' = newChecksum
                /\ data' = [faces |-> IF failAt \in MeshFailures THEN <<>> ELSE facesAB]
        /\ drawn' = [return |-> Return(failAt, newChecksum),
                     showMeshA |-> showMeshA, showMeshB |-> showMeshB]
        /\ UNCHANGED <<nodes, released, root, status, soup, kept, bboxOf, inMesh, builds, calls,
                       splits, k2k, faceIds, computed>>

-----------------------------------------------------------------------------
Init ==
    /\ nodes = <<>>
    /\ released = <<>>
    /\ root = [k \in Kernels |-> nullptr]
    /\ status = [k \in Kernels |-> "none"]
    /\ soup = [k \in Kernels |-> <<>>]
    /\ kept = [k \in Kernels |-> <<>>]
    /\ bboxOf = [k \in Kernels |-> World]
    /\ inMesh = [k \in Kernels |-> [polygons |-> <<>>, offsetMatrix |-> Identity]]
    /\ builds = [k \in Kernels |-> 0]
    /\ calls = <<>>
    /\ splits = <<>>
    /\ k2k = [k \in Kernels |-> NoResult]
    /\ faceIds = [k \in Kernels |-> {}]
    /\ data = [faces |-> <<>>]
    /\ computed = FALSE
    /\ prevChecksum = 0
    /\ drawn = [return |-> "none", showMeshA |-> FALSE, showMeshB |-> FALSE]

(* The life of one kernel: built, rebuilt on a change of its input, and    *)
(* destroyed.                                                              *)
FirstBuild ==
    /\ builds["A"] = 0
    /\ \E meshObject \in MeshesOf(PolygonsK, MaxPolys)
                            \cup MeshesOf(PolygonsDeep, MaxPolysDeep),
          bbox \in {World, Corner, Inverted},
          offsetMatrix \in {Identity, ShiftX} :
            build("A", meshObject, bbox, offsetMatrix)

Rebuild ==
    /\ root["A"] # nullptr
    /\ builds["A"] < MaxBuilds
    /\ \E meshObject \in {<<>>, <<Small>>, <<Quad, Small>>},
          bbox \in {World, Corner} :
            build("A", meshObject, bbox, Identity)

Destroy == destroy("A")

NextKernel == FirstBuild \/ Rebuild \/ Destroy

SpecKernel == Init /\ [][NextKernel]_vars

(* The driver: build kernel A, build kernel B, query, collapse the answer  *)
(* to face ids; the renderer then asks for the draw data.                  *)
BuildA ==
    /\ builds["A"] = 0
    /\ \E meshObject \in MeshesOf(PolygonsA, MaxPolys), bbox \in {World, Corner} :
            build("A", meshObject, bbox, Identity)

BuildB ==
    /\ builds["A"] = 1
    /\ builds["B"] = 0
    /\ \E meshObject \in MeshesOf(PolygonsB, MaxPolysB), bbox \in {World, WallBox} :
            build("B", meshObject, bbox, Identity)

Intersect == ~computed /\ ~k2k["A"].done /\ intersect("A")

(* The same query the other way round, for comparison with the first.      *)
IntersectReversed ==
    ~computed /\ k2k["A"].done /\ ~k2k["B"].done /\ intersect("B")

(* The driver calls collapse right after its one query.                    *)
Collapse == ~computed /\ ~k2k["B"].done /\ collapse

Draw ==
    /\ computed
    /\ \E checkSumA \in {1, 2}, showMeshA \in BOOLEAN :
            prepareForDraw(FALSE, "none", checkSumA, 2, showMeshA, TRUE)

Next == BuildA \/ BuildB \/ Intersect \/ IntersectReversed \/ Collapse \/ Draw

Spec == Init /\ [][Next]_vars

(* The renderer's side: the node has two meshes and their intersected face *)
(* ids, and the renderer calls prepareForDraw again and again, with the    *)
(* data of the call before or with none, while the show flags change, the  *)
(* checksums change or stay, and the calls on the node fail or succeed.    *)
LoadA ==
    /\ builds["A"] = 0
    /\ \E meshObject \in {<<Big>>, <<Small, Quad>>, <<Small>>} :
            build("A", meshObject, World, Identity)

LoadB ==
    /\ builds["A"] = 1
    /\ builds["B"] = 0
    /\ \E meshObject \in {<<Wall>>, <<Small>>} :
            build("B", meshObject, World, Identity)

PrepareForDraw ==
    /\ computed
    /\ \E fresh \in BOOLEAN,
          failAt \in {"none"} \cup EarlyFailures \cup MeshFailures,
          checkSumA \in {-1, 1, 2},
          showMeshA \in BOOLEAN, showMeshB \in BOOLEAN :
            prepareForDraw(fresh, failAt, checkSumA, 2, showMeshA, showMeshB)

NextDraw == LoadA \/ LoadB \/ Intersect \/ Collapse \/ PrepareForDraw

SpecDraw == Init /\ [][NextDraw]_vars

-----------------------------------------------------------------------------
(* Properties                                                              *)

DegenerateBBox(box) == \E i \in Axes : box.min[i] > box.max[i]

(* C5: a build given an empty or inverted bbox (min.i > max.i on some      *)
(* axis) returns a failure status and inserts no triangle.                 *)
C5_DegenerateBBoxFailsFast ==
    \A k \in Kernels :
        (builds[k] > 0 /\ DegenerateBBox(bboxOf[k]))
            => /\ status[k] # "kSuccess"
               /\ Stored(nodes, root[k]) = {}

Live == UNION {Subtree(nodes, root[k]) : k \in Kernels}

(* C6: every node ever allocated is either in a kernel's current tree or   *)
(* was released exactly once, children before their parent; so clear(root) *)
(* releases the whole tree once, no node of a tree a build replaced is     *)
(* reachable from the new root, and the new tree holds only triangles of   *)
(* the latest build.                                                       *)
C6_NodeRelease ==
    /\ \A i, j \in DOMAIN released : i # j => released[i] # released[j]
    /\ Elements(released) \cap Live = {}
    /\ Elements(released) \cup Live = DOMAIN nodes
    /\ \A i \in DOMAIN released : \A o \in Octants :
           nodes[released[i]].children[o] # nullptr
               => \E j \in 1 .. (i - 1) : released[j] = nodes[released[i]].children[o]
    /\ \A k \in Kernels : Stored(nodes, root[k]) \subseteq Elements(soup[k])

(* A kernel whose tree had been split was built again, on a mesh that is   *)
(* not empty.                                                              *)
C6_Witness ==
    /\ builds["A"] = 2
    /\ Len(released) >= 9
    /\ root["A"] # nullptr
    /\ Stored(nodes, root["A"]) # {}

(* No insert makes more calls than a full 8-ary call tree of depth         *)
(* MAX_DEPTH + 1 has.                                                      *)
CallBound == ((8 ^ (MAX_DEPTH + 2)) - 1) \div 7

(* C7: the calls of one Insert(root, tri, 0) are finitely many: the first  *)
(* has depth 0, every other has its caller's depth plus one, none is       *)
(* deeper than MAX_DEPTH + 1, and a call with depth > MAX_DEPTH appends    *)
(* the triangle to its node and neither recurses nor splits.               *)
C7_InsertTerminates ==
    /\ Len(calls) <= CallBound
    /\ \A n \in DOMAIN calls :
        LET c == calls[n]
        IN  /\ n = 1 => (c.caller = 0 /\ c.depth = 0)
            /\ n > 1 => /\ c.caller \in 1 .. (n - 1)
                        /\ c.depth = calls[c.caller].depth + 1
            /\ c.depth <= MAX_DEPTH + 1
            /\ c.depth > MAX_DEPTH =>
                /\ \A j \in DOMAIN calls : calls[j].caller # n
                /\ \A j \in DOMAIN splits : splits[j].call # n
                /\ DOMAIN c.after = DOMAIN c.before
                /\ c.after[c.node].triangles
                       = Append(c.before[c.node].triangles, c.triangle)
                /\ \A id \in DOMAIN c.before :
                       id # c.node => c.after[id] = c.before[id]

(* The last insert ran into the depth limit.                               *)
C7_Witness == \E n \in DOMAIN calls : calls[n].depth > MAX_DEPTH

(* The lower or upper half of box on every axis.                           *)
HalfBoxes(box) ==
    {[min |-> [i \in Axes |-> IF up[i] THEN (box.min[i] + box.max[i]) \div 2
                                       ELSE box.min[i]],
      max |-> [i \in Axes |-> IF up[i] THEN box.max[i]
                                       ELSE (box.min[i] + box.max[i]) \div 2]] :
        up \in [Axes -> BOOLEAN]}

(* 36 times the squared distance from the centre of box to the barycentre  *)
(* of triangle t.                                                          *)
Dist36(box, t) ==
    LET d == [i \in Axes |->
                 3 * (box.min[i] + box.max[i])
                 - 2 * (t.vertices[1][i] + t.vertices[2][i] + t.vertices[3][i])]
    IN  d[1] * d[1] + d[2] * d[2] + d[3] * d[3]

Containing(childBox, t) ==
    {i \in Octants : \A v \in 1 .. 3 : contains(childBox[i], t.vertices[v])}

Nearest(childBox, t) ==
    {i \in Octants : \A j \in Octants : Dist36(childBox[i], t) <= Dist36(childBox[j], t)}

Least(set) == CHOOSE i \in set : \A j \in set : i <= j

(* The child Split is to move t to.                                        *)
ExpectedChild(childBox, t) ==
    IF Containing(childBox, t) # {} THEN Least(Containing(childBox, t))
    ELSE Least(Nearest(childBox, t))

(* C9: Split(node) on a leaf leaves node with 8 fresh leaf children, one   *)
(* per octant of its box, and no triangles; every triangle node held is in *)
(* exactly one child, the lowest-index child containing its three          *)
(* vertices, or else the child whose centre is nearest its barycentre,     *)
(* lowest index on a tie; the children hold as many triangles as node did. *)
C9_Split ==
    \A n \in DOMAIN splits :
        LET node == splits[n].node
            b == splits[n].before
            a == splits[n].after
            kids == a[node].children
            childBox == [i \in Octants |-> a[kids[i]].boundingBox]
        IN  /\ isLeaf(b[node])
            /\ \A i \in Octants :
                   /\ kids[i] \in (DOMAIN a) \ (DOMAIN b)
                   /\ isLeaf(a[kids[i]])
                   /\ \A j \in Octants : i # j => kids[i] # kids[j]
            /\ {childBox[i] : i \in Octants} = HalfBoxes(b[node].boundingBox)
            /\ a[node].triangles = <<>>
            /\ \A i \in Octants :
                   a[kids[i]].triangles
                       = SelectSeq(b[node].triangles,
                                   LAMBDA t : ExpectedChild(childBox, t) = i)
            /\ Cardinality(UNION {{<<i, p>> : p \in DOMAIN a[kids[i]].triangles} :
                                      i \in Octants})
                   = Len(b[node].triangles)

(* A split moved one triangle to a child that contains it and another, no  *)
(* child containing it, to the lower of two equally near children.         *)
C9_Witness ==
    \E n \in DOMAIN splits :
        LET node == splits[n].node
            held == splits[n].before[node].triangles
            kids == splits[n].after[node].children
            childBox == [i \in Octants |-> splits[n].after[kids[i]].boundingBox]
        IN  /\ \E p \in DOMAIN held : Cardinality(Containing(childBox, held[p])) >= 1
            /\ \E p \in DOMAIN held :
                   /\ Containing(childBox, held[p]) = {}
                   /\ Cardinality(Nearest(childBox, held[p])) >= 2

(* The children of the node of call c whose box holds a vertex of its      *)
(* triangle.                                                               *)
WithVertex(c) ==
    {i \in Octants :
        /\ c.before[c.node].children[i] # nullptr
        /\ \E v \in 1 .. 3 :
               contains(c.before[c.before[c.node].children[i]].boundingBox,
                        c.triangle.vertices[v])}

Callees(n) == {j \in DOMAIN calls : calls[j].caller = n}

(* C10: Insert on an interior node (depth <= MAX_DEPTH) calls Insert, one  *)
(* deeper, on exactly the children whose box holds a vertex of the         *)
(* triangle, which is then stored under each of them; it appends the       *)
(* triangle to the node's own list iff there is no such child; the node's  *)
(* list is otherwise as it was, and so is everything under the other       *)
(* children.                                                               *)
C10_InteriorInsert ==
    \A n \in DOMAIN calls :
        calls[n].branch = "interior" =>
            LET c == calls[n]
                kids == c.before[c.node].children
            IN  /\ c.depth <= MAX_DEPTH
                /\ {calls[j].node : j \in Callees(n)} = {kids[i] : i \in WithVertex(c)}
                /\ Cardinality(Callees(n)) = Cardinality(WithVertex(c))
                /\ \A j \in Callees(n) :
                       /\ calls[j].depth = c.depth + 1
                       /\ calls[j].triangle = c.triangle
                /\ \A i \in WithVertex(c) : c.triangle \in Stored(c.after, kids[i])
                /\ c.after[c.node].triangles
                       = IF WithVertex(c) = {}
                         THEN Append(c.before[c.node].triangles, c.triangle)
                         ELSE c.before[c.node].triangles
                /\ c.after[c.node].children = kids
                /\ \A i \in Octants \ WithVertex(c) :
                       \A id \in Subtree(c.before, kids[i]) : c.after[id] = c.before[id]

(* An interior node passed the triangle down to two or more children.      *)
C10_Witness ==
    \E n \in DOMAIN calls :
        /\ calls[n].branch = "interior"
        /\ Cardinality(WithVertex(calls[n])) >= 2

(* An interior node kept the triangle, no child holding a vertex of it.    *)
C10_StuckReached ==
    \E n \in DOMAIN calls :
        /\ calls[n].branch = "interior"
        /\ WithVertex(calls[n]) = {}

(* The face ids of the two vectors a query returned.                       *)
FaceIdsOf(result) == <<FaceIdSet(result.first), FaceIdSet(result.second)>>

(* Every triangle of k's mesh against every triangle of the other mesh.    *)
BruteForce(k) ==
    {<<soup[k][i], soup[Other(k)][j]>> :
        <<i, j>> \in {p \in (DOMAIN soup[k]) \X (DOMAIN soup[Other(k)]) :
                        intersectTriangleTriangle(soup[k][p[1]], soup[Other(k)][p[2]])}}

BruteForceFaceIds(k) ==
    <<{p[1].faceIndex : p \in BruteForce(k)}, {p[2].faceIndex : p \in BruteForce(k)}>>

(* No triangle of k's tree is stored on a node that has children.          *)
AllAtLeaves(k) ==
    \A id \in Subtree(nodes, root[k]) : isLeaf(nodes[id]) \/ nodes[id].triangles = <<>>

(* The bbox k was built with holds every vertex of k's mesh.               *)
Enclosed(k) ==
    \A n \in DOMAIN soup[k] : \A v \in 1 .. 3 : contains(bboxOf[k], soup[k][n].vertices[v])

(* C1: when the two builds left every triangle on a leaf (and each bbox    *)
(* holds its mesh), the face-id sets of kernel.intersect(other) are those  *)
(* of the brute-force enumeration with the same triangle-triangle test.    *)
C1_BruteForceEquality ==
    \A k \in Kernels :
        (/\ k2k[k].done
         /\ \A j \in Kernels : AllAtLeaves(j) /\ Enclosed(j))
            => FaceIdsOf(k2k[k]) = BruteForceFaceIds(k)

Mirror(pairs) == {<<pairs[n][2], pairs[n][1]>> : n \in 1 .. Len(pairs)}

(* C2: once A.intersect(B) and B.intersect(A) are both made, the face ids  *)
(* each reports for mesh A are the same, and so for mesh B; and the        *)
(* descent from (A, B) emits (LA, LB) exactly when the descent from (B, A) *)
(* emits (LB, LA).                                                         *)
C2_Symmetry ==
    (k2k["A"].done /\ k2k["B"].done) =>
        /\ FaceIdSet(k2k["A"].first) = FaceIdSet(k2k["B"].second)
        /\ FaceIdSet(k2k["A"].second) = FaceIdSet(k2k["B"].first)
        /\ Elements(k2k["A"].intersectedNodes) = Mirror(k2k["B"].intersectedNodes)

(* Both queries were made between a tree that is one leaf and a tree that  *)
(* was split, and they found faces.                                        *)
C2_Witness ==
    /\ k2k["A"].done
    /\ k2k["B"].done
    /\ isLeaf(nodes[root["A"]]) # isLeaf(nodes[root["B"]])
    /\ k2k["A"].first # <<>>

(* Some axis separates the two boxes.                                      *)
Apart(boxA, boxB) ==
    \E i \in Axes : boxA.max[i] < boxB.min[i] \/ boxB.max[i] < boxA.min[i]

(* C3: when the bboxes given to the two builds do not overlap, the query   *)
(* returns two empty vectors.                                              *)
C3_DisjointBBoxesEmpty ==
    \A k \in Kernels :
        (k2k[k].done /\ Apart(bboxOf["A"], bboxOf["B"]))
            => (k2k[k].first = <<>> /\ k2k[k].second = <<>>)

(* A query was made between boxes that do not overlap, on meshes with      *)
(* triangles that do intersect.                                            *)
C3_Witness ==
    /\ k2k["A"].done
    /\ Apart(bboxOf["A"], bboxOf["B"])
    /\ BruteForce("A") # {}

(* C4: what the node and the draw data show of a query holds each face id  *)
(* at most once per mesh: the two face-id sets hold the face ids of the    *)
(* returned triangles, and no two faces of the draw data are of the same   *)
(* polygon of the same mesh.                                               *)
C4_SetSemantics ==
    /\ computed =>
           /\ faceIds["A"] = FaceIdSet(k2k["A"].first)
           /\ faceIds["B"] = FaceIdSet(k2k["A"].second)
    /\ \A i, j \in DOMAIN data.faces :
           (/\ data.faces[i].mesh = data.faces[j].mesh
            /\ data.faces[i].faceId = data.faces[j].faceId) => i = j

(* The draw data was made of a result in which a triangle stored in two    *)
(* nodes was hit in two leaf pairs, and both triangles of one polygon were *)
(* hit.                                                                    *)
C4_Witness ==
    /\ data.faces # <<>>
    /\ \E i, j \in DOMAIN k2k["A"].tested :
           /\ Hit(k2k["A"].tested[i])
           /\ Hit(k2k["A"].tested[j])
           /\ k2k["A"].tested[i].triA = k2k["A"].tested[j].triA
           /\ k2k["A"].tested[i].nodeA # k2k["A"].tested[j].nodeA
    /\ \E i, j \in DOMAIN k2k["A"].first :
           /\ k2k["A"].first[i].faceIndex = k2k["A"].first[j].faceIndex
           /\ k2k["A"].first[i].triangleIndex # k2k["A"].first[j].triangleIndex

(* The nodes the descent goes to from node x: x itself if it is a leaf,    *)
(* its children if not.                                                    *)
Below(h, x) ==
    IF isLeaf(h[x]) THEN {x} ELSE {h[x].children[i] : i \in Octants} \ {nullptr}

(* The pairs visited next from the pairs of S.                             *)
Onward(h, S) ==
    UNION {Below(h, p[1]) \X Below(h, p[2]) :
              p \in {q \in S : /\ intersects(h[q[1]].boundingBox, h[q[2]].boundingBox)
                               /\ ~(isLeaf(h[q[1]]) /\ isLeaf(h[q[2]]))}}

RECURSIVE VisitedFrom(_, _, _)
(* The pairs of nodes reached from S through pairs whose boxes intersect.  *)
VisitedFrom(h, S, T) == IF T \subseteq S THEN S ELSE VisitedFrom(h, S \cup T, Onward(h, T))

(* The leaf pairs with intersecting boxes among the visited pairs.         *)
LeafPairs(h, rootA, rootB) ==
    {p \in VisitedFrom(h, {}, {<<rootA, rootB>>}) :
        /\ isLeaf(h[p[1]])
        /\ isLeaf(h[p[2]])
        /\ intersects(h[p[1]].boundingBox, h[p[2]].boundingBox)}

(* C8: the descent emits exactly the pairs of leaves whose boxes intersect *)
(* and that are reached from the two roots through pairs whose boxes       *)
(* intersect, each once; and only triangles of emitted leaves are tested,  *)
(* so a triangle stored on a node with children is never tested and gives  *)
(* no face id.                                                             *)
C8_DualDescent ==
    \A k \in Kernels :
        k2k[k].done =>
            LET r == k2k[k]
            IN  /\ Elements(r.intersectedNodes) = LeafPairs(nodes, root[k], root[Other(k)])
                /\ \A i, j \in DOMAIN r.intersectedNodes :
                       r.intersectedNodes[i] = r.intersectedNodes[j] => i = j
                /\ \A n \in DOMAIN r.tested :
                       LET t == r.tested[n]
                       IN  /\ isLeaf(nodes[t.nodeA])
                           /\ isLeaf(nodes[t.nodeB])
                           /\ <<t.nodeA, t.nodeB>> \in Elements(r.intersectedNodes)
                           /\ t.triA = nodes[t.nodeA].triangles[t.a]
                           /\ t.triB = nodes[t.nodeB].triangles[t.b]
                /\ \A n \in DOMAIN r.first :
                       \E m \in DOMAIN r.tested :
                           r.tested[m].triA = r.first[n] /\ r.tested[m].triB = r.second[n]

(* A query emitted leaf pairs from a tree whose root, which has children,  *)
(* holds a triangle that intersects a triangle of the other mesh; the      *)
(* triangle's face is not in the result.                                   *)
C8_Witness ==
    /\ k2k["A"].done
    /\ k2k["A"].intersectedNodes # <<>>
    /\ ~isLeaf(nodes[root["A"]])
    /\ \E n \in DOMAIN nodes[root["A"]].triangles :
           /\ \E m \in DOMAIN soup["B"] :
                  intersectTriangleTriangle(nodes[root["A"]].triangles[n], soup["B"][m])
           /\ nodes[root["A"]].triangles[n].faceIndex \notin FaceIdSet(k2k["A"].first)

(* The leaves of the kernels' trees.                                       *)
Leaves == {id \in Live : isLeaf(nodes[id])}

(* C11 as stated: every leaf holds at most MAX_TRIANGLES_PER_NODE          *)
(* triangles, except a leaf to which the depth > MAX_DEPTH branch of       *)
(* insertTriangle appended a triangle.                                     *)
C11_LeafCapacity ==
    \A id \in Leaves :
        Len(nodes[id].triangles) <= MAX_TRIANGLES_PER_NODE \/ nodes[id].overflowed

(* The nodes of the kernels' trees that have id under them, id included.   *)
UpFrom(id) == {a \in Live : id \in Subtree(nodes, a)}

(* C11 amended: every leaf holds at most MAX_TRIANGLES_PER_NODE triangles, *)
(* except a leaf such that the depth > MAX_DEPTH branch appended a         *)
(* triangle to it or, while that was a leaf, to a node above it (whose     *)
(* triangles splitNode then moved down).                                   *)
C11_LeafCapacityAmended ==
    \A id \in Leaves :
        \/ Len(nodes[id].triangles) <= MAX_TRIANGLES_PER_NODE
        \/ \E a \in UpFrom(id) : nodes[a].overflowed

(* A tree with a leaf at capacity, a leaf over capacity by an append of    *)
(* the depth > MAX_DEPTH branch, and a leaf over capacity by a splitNode.  *)
C11_Witness ==
    /\ \E id \in Leaves : Len(nodes[id].triangles) = MAX_TRIANGLES_PER_NODE
    /\ \E id \in Leaves :
           /\ Len(nodes[id].triangles) > MAX_TRIANGLES_PER_NODE
           /\ nodes[id].overflowed
    /\ \E id \in Leaves :
           /\ Len(nodes[id].triangles) > MAX_TRIANGLES_PER_NODE
           /\ ~nodes[id].overflowed

(* The triangles build inserted into kernel k, up to the j-th.             *)
InsertedUpTo(k, j) == {soup[k][i] : i \in 1 .. j}

(* C12: build loses and invents no triangle.  After every single insert of *)
(* a build, the triangles stored in the nodes of the tree are exactly the  *)
(* triangles inserted so far (each with its face id, its triangle index    *)
(* and its vertices), and the tree a build leaves stores exactly the       *)
(* triangles of the mesh; this covers the inserts that call splitNode and  *)
(* those that take the depth > MAX_DEPTH branch.                           *)
C12_NoTriangleLostOrInvented ==
    \A k \in Kernels :
        /\ Len(kept[k]) = Len(soup[k])
        /\ \A j \in DOMAIN kept[k] : kept[k][j] = InsertedUpTo(k, j)
        /\ root[k] # nullptr => Stored(nodes, root[k]) = Elements(soup[k])

(* A build of more triangles than a node holds, all with different         *)
(* (face id, triangle index), whose last insert called splitNode and took  *)
(* the depth > MAX_DEPTH branch, in a tree that stores a triangle in       *)
(* more than one node.                                                     *)
C12_Witness ==
    \E k \in Kernels :
        /\ root[k] # nullptr
        /\ Len(soup[k]) > MAX_TRIANGLES_PER_NODE
        /\ \A i, j \in DOMAIN soup[k] :
               i # j => <<soup[k][i].faceIndex, soup[k][i].triangleIndex>>
                            # <<soup[k][j].faceIndex, soup[k][j].triangleIndex>>
        /\ splits # <<>>
        /\ \E n \in DOMAIN calls : calls[n].branch = "overflow"
        /\ \E a, b \in Subtree(nodes, root[k]) :
               /\ a # b
               /\ Elements(nodes[a].triangles) \cap Elements(nodes[b].triangles) # {}

(* What the lines after the checksum test put into the faces when no call  *)
(* fails: the faces of the intersected polygons of mesh A if showMeshA,    *)
(* then those of mesh B if showMeshB.                                      *)
Recomputation(showMeshA, showMeshB) ==
    LET facesA == IF showMeshA
                  THEN addIntersectedVertices(<<>>, "A", inMesh["A"], faceIds["A"])
                  ELSE <<>>
    IN  IF showMeshB
        THEN addIntersectedVertices(facesA, "B", inMesh["B"], faceIds["B"])
        ELSE facesA

(* C13: whenever prepareForDraw takes the return of the checksum test      *)
(* (newChecksum > 0 and newChecksum = prevChecksum), the faces of the data *)
(* it returns are those a full recomputation for the current meshes, show  *)
(* flags and intersected face ids gives.                                   *)
C13_DrawCacheConsistency ==
    drawn.return = "unchanged" =>
        data.faces = Recomputation(drawn.showMeshA, drawn.showMeshB)

====
